---- MODULE Spec2Model ----
(***************************************************************************)
(* Model of easyfix-messages-gen/src/gen.rs: the schema compiler           *)
(* (process_members, Generator::new), the reject-reason mapping built by   *)
(* Generator::generate_fields, and the FixtMessage::deserialize function   *)
(* emitted by Generator::generate_messages.                                *)
(*                                                                         *)
(* process_members is modelled with an explicit call stack: one frame per  *)
(* active call, holding the member slice and the position of its peekable  *)
(* iterator, and one descriptor vector per Vec<MemberDesc> alive.          *)
(***************************************************************************)
EXTENDS Integers, Sequences, FiniteSets, TLC

VARIABLES
    dictionary,              \* the &Dictionary handed to Generator::new
    raw_message,             \* the inbound message handed to FixtMessage::deserialize
    phase,                   \* position inside Generator::new
    begin_string,            \* local begin_string of Generator::new
    structs,                 \* local structs: Vec<Struct>
    groups,                  \* local groups: HashMap<String, Struct>
    header_members,          \* Rc<Vec<MemberDesc>> (Option: empty until built)
    trailer_members,         \* Rc<Vec<MemberDesc>> (Option: empty until built)
    todo,                    \* messages the for loop has not visited yet
    cur_msg,                 \* the message the for loop is at (Option)
    stack,                   \* call stack of process_members
    vecs,                    \* the descriptor vectors alive, innermost last
    nstructs,                \* number of Struct::new calls so far (object identity)
    reject_reason_overrides, \* Generator.reject_reason_overrides (Option)
    reject_reason_fn,        \* arms of parse_reject_reason_to_session_reject_reason (Option)
    deser_result             \* what FixtMessage::deserialize returned (Option)

vars == <<dictionary, raw_message, phase, begin_string, structs, groups,
          header_members, trailer_members, todo, cur_msg, stack, vecs,
          nstructs, reject_reason_overrides, reject_reason_fn, deser_result>>

----------------------------------------------------------------------------
\* Bounds of the model.

\* Longest member list drawn for a message.
MaxLen == 2

\* Largest service pack number of a dictionary version.
MaxServicePack == 2

\* The frames the call stack of process_members has room for: one more than
\* the number of components, so that a run along which no component is
\* entered twice fits.
MaxDepth == 4

----------------------------------------------------------------------------
\* Option<T>: the empty sequence is None, a one-element sequence is Some.

None == <<>>

Some(x) == <<x>>

Last(s) == s[Len(s)]

Front(s) == SubSeq(s, 1, Len(s) - 1)

----------------------------------------------------------------------------
\* The dictionary: fields, members, components.

\* dictionary.fields_by_name(): name -> field (number, type, has a value set).
Fields ==
    ("RawDataLength" :> [number |-> 95,  type |-> "Length",     values |-> FALSE]) @@
    ("RawData"       :> [number |-> 96,  type |-> "Data",       values |-> FALSE]) @@
    ("XmlData"       :> [number |-> 213, type |-> "XmlData",    values |-> FALSE]) @@
    ("Text"          :> [number |-> 58,  type |-> "String",     values |-> FALSE]) @@
    ("Side"          :> [number |-> 54,  type |-> "Char",       values |-> TRUE])  @@
    ("PossDupFlag"   :> [number |-> 43,  type |-> "Boolean",    values |-> TRUE])  @@
    ("NoPartyIDs"    :> [number |-> 453, type |-> "NumInGroup", values |-> FALSE]) @@
    ("NoPartySubIDs" :> [number |-> 802, type |-> "NumInGroup", values |-> FALSE])

\* dictionary.fields_by_name().get(name)
FieldsByNameGet(name) ==
    IF name \in DOMAIN Fields THEN Some(Fields[name]) ELSE None

\* A Member of a member list: kind(), name(), required().
Member(kind, name, required) ==
    [kind |-> kind, name |-> name, required |-> required]

FieldMember(name, required) == Member("Field", name, required)

ComponentMember(name, required) == Member("Component", name, required)

\* The bodies a plain (no cardinality) component "Block" is drawn from.
BlockChoices ==
    { <<FieldMember("Text", TRUE)>>,
      <<FieldMember("Text", FALSE), FieldMember("RawDataLength", TRUE)>>,
      <<ComponentMember("Parties", TRUE)>> }

\* A plain component whose only member is a reference to itself.
CyclicBlock == <<ComponentMember("Block", TRUE)>>

DefaultParties ==
    <<FieldMember("Text", TRUE), ComponentMember("SubParties", FALSE)>>

\* dictionary.component(name): members() and number_of_elements().
ComponentsOf(block, parties) ==
    ("Block" :>
        [name |-> "Block", members |-> block, number_of_elements |-> None]) @@
    ("Parties" :>
        [name |-> "Parties",
         members |-> parties,
         number_of_elements |-> Some(FieldMember("NoPartyIDs", TRUE))]) @@
    ("SubParties" :>
        [name |-> "SubParties",
         members |-> <<FieldMember("Side", TRUE)>>,
         number_of_elements |-> Some(FieldMember("NoPartySubIDs", FALSE))])

Components(block) == ComponentsOf(block, DefaultParties)

\* dictionary.component(name)
ComponentGet(dict, name) ==
    IF name \in DOMAIN dict.components THEN Some(dict.components[name]) ELSE None

\* The members a message's list is drawn from.
MemberAlphabet ==
    { FieldMember("RawDataLength", TRUE),
      FieldMember("RawData", FALSE),
      FieldMember("XmlData", TRUE),
      FieldMember("Text", TRUE),
      FieldMember("Side", FALSE),
      FieldMember("PossDupFlag", TRUE),
      ComponentMember("Block", FALSE),
      ComponentMember("Parties", TRUE),
      ComponentMember("Parties", FALSE) }

MemberLists == UNION { [1..k -> MemberAlphabet] : k \in 0..MaxLen }

----------------------------------------------------------------------------
\* member.rs and structure.rs: the values process_members builds.

SimpleMember_field(name, tag, required, type) ==
    [name |-> name, tag |-> tag, required |-> required, type |-> type]

SimpleMember_length(name, tag, required) ==
    [name |-> name, tag |-> tag, required |-> required, type |-> "Length"]

SimpleMember_num_in_group(name, tag, required) ==
    [name |-> name, tag |-> tag, required |-> required, type |-> "NumInGroup"]

SimpleMember_group(name, tag, required) ==
    [name |-> name, tag |-> tag, required |-> required, type |-> "Group"]

MemberDesc_Simple(simple_member) ==
    [variant |-> "Simple", member |-> simple_member]

MemberDesc_simple(name, tag, required, type) ==
    MemberDesc_Simple(SimpleMember_field(name, tag, required, type))

MemberDesc_enumeration(name, tag, required, type) ==
    [variant |-> "Enumeration",
     member |-> SimpleMember_field(name, tag, required, type)]

MemberDesc_custom_length(len, value) ==
    [variant |-> "CustomLength", len |-> len, value |-> value]

MemberDesc_group(num_in_group, group, tags) ==
    [variant |-> "Group", num_in_group |-> num_in_group, group |-> group,
     tags |-> tags]

\* member.tag_num(), for the Simple descriptors it is called on.
TagNum(desc) == desc.member.tag

\* Struct::new(name, members, msg_props); id is the serial number of the call.
Struct_new(name, members, msg_props, id) ==
    [name |-> name, members |-> members, msg_props |-> msg_props, id |-> id]

----------------------------------------------------------------------------
\* process_members: the call stack.

\* A frame of process_members: its member slice, how many members its
\* iterator has yielded, how it was called ("top": from Generator::new,
\* "group": line 48 with a fresh vector, "inline": line 83 with the caller's
\* vector) and, for a call made for a component member, that member.
Frame(members, kind, via) ==
    [members |-> members, pos |-> 0, kind |-> kind, via |-> via]

Running == phase \in {"header", "trailer", "message"} /\ stack # <<>>

Cur == Last(stack)

\* members.next() would yield a member
HasNext(frame) == frame.pos < Len(frame.members)

\* the member members.next() yields
NextMember(frame) == frame.members[frame.pos + 1]

\* members.peek(), once members.next() has yielded NextMember
Peek(frame) ==
    IF frame.pos + 2 <= Len(frame.members)
    THEN Some(frame.members[frame.pos + 2])
    ELSE None

\* the stack once the iterator of the innermost frame has yielded one member
Advanced == [stack EXCEPT ![Len(stack)].pos = @ + 1]

\* members_descs.push(desc), for each desc of descs, on the innermost vector
Pushed(vs, descs) == [vs EXCEPT ![Len(vs)] = @ \o descs]

\* LengthArm with a plain descriptor pushed for a Length field that no member
\* follows.
LengthArm_KeepsTrailing(member, field, peeked) ==
    IF peeked = None
    THEN [panic |-> FALSE,
          push |-> <<MemberDesc_simple(member.name, field.number,
                                       member.required, field.type)>>]
    ELSE LET next_member == peeked[1]
             next_field == FieldsByNameGet(next_member.name)
         IN  IF next_field = None
             THEN [panic |-> TRUE, push |-> <<>>]
             ELSE IF next_field[1].type \in {"Data", "XmlData"}
             THEN [panic |-> FALSE,
                   push |-> <<MemberDesc_custom_length(
                                SimpleMember_length(member.name, field.number,
                                                    member.required),
                                SimpleMember_field(next_member.name,
                                                   next_field[1].number,
                                                   next_member.required,
                                                   next_field[1].type))>>]
             ELSE [panic |-> FALSE,
                   push |-> <<MemberDesc_simple(member.name, field.number,
                                                member.required, field.type)>>]

\* What the BasicType::Length arm does with a member: the descriptors it
\* pushes, or the panic of expect("unknown field") on the peeked member.
LengthArm(member, field, peeked) ==
    IF peeked = None
    THEN [panic |-> FALSE, push |-> <<>>]
    ELSE LET next_member == peeked[1]
             next_field == FieldsByNameGet(next_member.name)
         IN  IF next_field = None
             THEN [panic |-> TRUE, push |-> <<>>]
             ELSE IF next_field[1].type \in {"Data", "XmlData"}
             THEN [panic |-> FALSE,
                   push |-> <<MemberDesc_custom_length(
                                SimpleMember_length(member.name, field.number,
                                                    member.required),
                                SimpleMember_field(next_member.name,
                                                   next_field[1].number,
                                                   next_member.required,
                                                   next_field[1].type))>>]
             ELSE [panic |-> FALSE,
                   push |-> <<MemberDesc_simple(member.name, field.number,
                                                member.required, field.type)>>]

\* BooleanArm without the special case: a Boolean field is classified as the
\* fields of the other types are.
BooleanArm_NoSpecialCase(member, field) ==
    IF field.values
    THEN <<MemberDesc_enumeration(member.name, field.number, member.required,
                                  "Boolean")>>
    ELSE <<MemberDesc_simple(member.name, field.number, member.required,
                             "Boolean")>>

\* The BasicType::Boolean arm.
BooleanArm(member, field) ==
    <<MemberDesc_simple(member.name, field.number, member.required, "Boolean")>>

\* The arm of every other type.
OtherArm(member, field) ==
    IF field.values
    THEN <<MemberDesc_enumeration(member.name, field.number, member.required,
                                  field.type)>>
    ELSE <<MemberDesc_simple(member.name, field.number, member.required,
                             field.type)>>

\* ElementTags with the Simple descriptors that accompany nested groups left
\* out as well.
ElementTags_FieldsOnly(group_members) ==
    LET simple == SelectSeq(group_members,
                            LAMBDA d : d.variant = "Simple" /\ d.member.type # "Group")
    IN  [i \in 1..Len(simple) |-> TagNum(simple[i])]

\* the tag numbers collected from the Simple descriptors of a group
ElementTags(group_members) ==
    LET simple == SelectSeq(group_members, LAMBDA d : d.variant = "Simple")
    IN  [i \in 1..Len(simple) |-> TagNum(simple[i])]

\* GroupDescs with the two descriptors pushed in the other order.
GroupDescs_SimpleFirst(member, number_of_elements, number_of_elements_field, group_members) ==
    << MemberDesc_Simple(
           SimpleMember_group(member.name, number_of_elements_field.number,
                              member.required)),
       MemberDesc_group(
           SimpleMember_num_in_group(number_of_elements.name,
                                     number_of_elements_field.number,
                                     member.required),
           SimpleMember_group(member.name, number_of_elements_field.number,
                              member.required),
           ElementTags(group_members)) >>

\* GroupDescs with the required flag taken from number_of_elements (the
\* argument commented out at lines 57, 63 and 76).
GroupDescs_DeclaredRequired(member, number_of_elements, number_of_elements_field, group_members) ==
    << MemberDesc_group(
           SimpleMember_num_in_group(number_of_elements.name,
                                     number_of_elements_field.number,
                                     number_of_elements.required),
           SimpleMember_group(member.name, number_of_elements_field.number,
                              number_of_elements.required),
           ElementTags(group_members)),
       MemberDesc_Simple(
           SimpleMember_group(member.name, number_of_elements_field.number,
                              number_of_elements.required)) >>

\* The two descriptors pushed for a member naming a component that has a
\* number_of_elements.
GroupDescs(member, number_of_elements, number_of_elements_field, group_members) ==
    << MemberDesc_group(
           SimpleMember_num_in_group(number_of_elements.name,
                                     number_of_elements_field.number,
                                     member.required),
           SimpleMember_group(member.name, number_of_elements_field.number,
                              member.required),
           ElementTags(group_members)),
       MemberDesc_Simple(
           SimpleMember_group(member.name, number_of_elements_field.number,
                              member.required)) >>

\* GroupsEntryOrInsertWith as groups.insert(name, Struct::new(..)): a later
\* reference replaces the Struct.
GroupsEntryOrInsertWith_Replaces(gs, n, name, group_members) ==
    [groups |-> (name :> Struct_new(name, group_members, None, n + 1)) @@ gs,
     nstructs |-> n + 1]

\* groups.entry(name).or_insert_with(|| Struct::new(name, group_members, None))
GroupsEntryOrInsertWith(gs, n, name, group_members) ==
    IF name \in DOMAIN gs
    THEN [groups |-> gs, nstructs |-> n]
    ELSE [groups |-> (name :> Struct_new(name, group_members, None, n + 1)) @@ gs,
          nstructs |-> n + 1]

NewLocals == <<begin_string, structs, header_members, trailer_members, todo,
               cur_msg>>

Outputs == <<reject_reason_overrides, reject_reason_fn, deser_result>>

Inputs == <<dictionary, raw_message>>

\* MemberKind::Component, the component has a number_of_elements: the call
\* of line 48, on a fresh group_members vector.
PMGroupCall ==
    /\ Running /\ HasNext(Cur)
    /\ LET member == NextMember(Cur)
       IN  /\ member.kind = "Component"
           /\ ComponentGet(dictionary, member.name) # None
           /\ LET component == ComponentGet(dictionary, member.name)[1]
              IN  /\ component.number_of_elements # None
                  /\ FieldsByNameGet(component.number_of_elements[1].name) # None
                  /\ Len(stack) < MaxDepth
                  /\ stack' = Append(Advanced,
                                     Frame(component.members, "group", Some(member)))
                  /\ vecs' = Append(vecs, <<>>)
    /\ UNCHANGED <<phase, groups, nstructs, NewLocals, Outputs, Inputs>>

\* The call of line 48 returns: lines 49..81.
PMGroupReturn ==
    /\ Running /\ ~HasNext(Cur) /\ Cur.kind = "group"
    /\ LET member == Cur.via[1]
           component == ComponentGet(dictionary, member.name)[1]
           number_of_elements == component.number_of_elements[1]
           number_of_elements_field == FieldsByNameGet(number_of_elements.name)[1]
           group_members == Last(vecs)
           reg == GroupsEntryOrInsertWith(groups, nstructs, component.name,
                                          group_members)
       IN  /\ vecs' = Pushed(Front(vecs),
                             GroupDescs(member, number_of_elements,
                                        number_of_elements_field, group_members))
           /\ groups' = reg.groups
           /\ nstructs' = reg.nstructs
    /\ stack' = Front(stack)
    /\ UNCHANGED <<phase, NewLocals, Outputs, Inputs>>

\* MemberKind::Component without number_of_elements: the call of line 83,
\* on the caller's vector.
PMInlineCall ==
    /\ Running /\ HasNext(Cur)
    /\ LET member == NextMember(Cur)
       IN  /\ member.kind = "Component"
           /\ ComponentGet(dictionary, member.name) # None
           /\ LET component == ComponentGet(dictionary, member.name)[1]
              IN  /\ component.number_of_elements = None
                  /\ Len(stack) < MaxDepth
                  /\ stack' = Append(Advanced,
                                     Frame(component.members, "inline", Some(member)))
    /\ UNCHANGED <<phase, vecs, groups, nstructs, NewLocals, Outputs, Inputs>>

\* The call of line 83 returns.
PMInlineReturn ==
    /\ Running /\ ~HasNext(Cur) /\ Cur.kind = "inline"
    /\ stack' = Front(stack)
    /\ UNCHANGED <<phase, vecs, groups, nstructs, NewLocals, Outputs, Inputs>>

\* PMLength with the peeked Data or XmlData member skipped once it is paired.
PMLength_SkipsPeeked ==
    /\ Running /\ HasNext(Cur)
    /\ LET member == NextMember(Cur)
       IN  /\ member.kind = "Field"
           /\ FieldsByNameGet(member.name) # None
           /\ LET field == FieldsByNameGet(member.name)[1]
                  arm == LengthArm(member, field, Peek(Cur))
                  paired == arm.push # <<>> /\ arm.push[1].variant = "CustomLength"
              IN  /\ field.type = "Length"
                  /\ \/ /\ arm.panic
                        /\ phase' = "panic"
                        /\ UNCHANGED <<stack, vecs>>
                     \/ /\ ~arm.panic
                        /\ stack' = [stack EXCEPT ![Len(stack)].pos =
                                        @ + (IF paired THEN 2 ELSE 1)]
                        /\ vecs' = Pushed(vecs, arm.push)
                        /\ UNCHANGED phase
    /\ UNCHANGED <<groups, nstructs, NewLocals, Outputs, Inputs>>

\* MemberKind::Field, BasicType::Length.
PMLength ==
    /\ Running /\ HasNext(Cur)
    /\ LET member == NextMember(Cur)
       IN  /\ member.kind = "Field"
           /\ FieldsByNameGet(member.name) # None
           /\ LET field == FieldsByNameGet(member.name)[1]
                  arm == LengthArm(member, field, Peek(Cur))
              IN  /\ field.type = "Length"
                  /\ \/ /\ arm.panic
                        /\ phase' = "panic"
                        /\ UNCHANGED <<stack, vecs>>
                     \/ /\ ~arm.panic
                        /\ stack' = Advanced
                        /\ vecs' = Pushed(vecs, arm.push)
                        /\ UNCHANGED phase
    /\ UNCHANGED <<groups, nstructs, NewLocals, Outputs, Inputs>>

\* MemberKind::Field, BasicType::Boolean.
PMBoolean ==
    /\ Running /\ HasNext(Cur)
    /\ LET member == NextMember(Cur)
       IN  /\ member.kind = "Field"
           /\ FieldsByNameGet(member.name) # None
           /\ LET field == FieldsByNameGet(member.name)[1]
              IN  /\ field.type = "Boolean"
                  /\ vecs' = Pushed(vecs, BooleanArm(member, field))
    /\ stack' = Advanced
    /\ UNCHANGED <<phase, groups, nstructs, NewLocals, Outputs, Inputs>>

\* MemberKind::Field, any other type.
PMOther ==
    /\ Running /\ HasNext(Cur)
    /\ LET member == NextMember(Cur)
       IN  /\ member.kind = "Field"
           /\ FieldsByNameGet(member.name) # None
           /\ LET field == FieldsByNameGet(member.name)[1]
              IN  /\ field.type \notin {"Length", "Boolean"}
                  /\ vecs' = Pushed(vecs, OtherArm(member, field))
    /\ stack' = Advanced
    /\ UNCHANGED <<phase, groups, nstructs, NewLocals, Outputs, Inputs>>

\* A call of line 48 or 83 for which the stack has no room: the process is
\* aborted.
PMStackOverflow ==
    /\ Running /\ HasNext(Cur)
    /\ LET member == NextMember(Cur)
       IN  /\ member.kind = "Component"
           /\ ComponentGet(dictionary, member.name) # None
           /\ LET component == ComponentGet(dictionary, member.name)[1]
              IN  component.number_of_elements # None
                      => FieldsByNameGet(component.number_of_elements[1].name) # None
    /\ Len(stack) >= MaxDepth
    /\ phase' = "overflow"
    /\ UNCHANGED <<stack, vecs, groups, nstructs, NewLocals, Outputs, Inputs>>

ProcessMembers ==
    \/ PMGroupCall
    \/ PMGroupReturn
    \/ PMInlineCall
    \/ PMInlineReturn
    \/ PMStackOverflow
    \/ PMLength
    \/ PMBoolean
    \/ PMOther

----------------------------------------------------------------------------
\* Generator::new

\* A protocol version: major(), minor(), service_pack().
Version(major, minor, service_pack) ==
    [major |-> major, minor |-> minor, service_pack |-> service_pack]

\* format!("{}.{}.{}", ..) and format!("{}.{}.{}SP{}", ..), as the sequence
\* of the pieces written.
BeginString(protocol, version) ==
    IF version.service_pack = 0
    THEN <<protocol, ".", ToString(version.major), ".", ToString(version.minor)>>
    ELSE <<protocol, ".", ToString(version.major), ".", ToString(version.minor),
           "SP", ToString(version.service_pack)>>

\* MessageProperties { msg_cat, _msg_type, header_members, trailer_members }
MessageProperties(msg, hm, tm) ==
    [msg_cat |-> msg.msg_cat, msg_type |-> msg.msg_type,
     header_members |-> hm, trailer_members |-> tm]

\* the orders in which groups.into_values() may yield the values of a map
IntoValues(map) ==
    LET n == Cardinality(DOMAIN map)
    IN  { [i \in 1..n |-> map[k[i]]] :
            k \in { f \in [1..n -> DOMAIN map] :
                      \A i, j \in 1..n : f[i] = f[j] => i = j } }

PMVars == <<stack, vecs>>

\* Lines 158..189: the begin string, the empty structs and groups, and the
\* call of process_members on the header.
NewStart ==
    /\ phase = "start"
    /\ \/ /\ dictionary.fixt_version # None
          /\ begin_string' = Some(BeginString("FIXT", dictionary.fixt_version[1]))
          /\ phase' = "header"
          /\ stack' = <<Frame(dictionary.header.members, "top", None)>>
          /\ vecs' = << <<>> >>
       \/ /\ dictionary.fixt_version = None
          /\ dictionary.fix_version # None
          /\ begin_string' = Some(BeginString("FIX", dictionary.fix_version[1]))
          /\ phase' = "header"
          /\ stack' = <<Frame(dictionary.header.members, "top", None)>>
          /\ vecs' = << <<>> >>
       \/ /\ dictionary.fixt_version = None
          /\ dictionary.fix_version = None
          /\ phase' = "panic"
          /\ UNCHANGED <<begin_string, stack, vecs>>
    /\ UNCHANGED <<structs, groups, nstructs, header_members, trailer_members,
                   todo, cur_msg, Outputs, Inputs>>

\* the outermost call of process_members has returned
TopReturned ==
    /\ Len(stack) = 1
    /\ Cur.kind = "top"
    /\ ~HasNext(Cur)

\* Lines 190..204: the header Struct, and the call on the trailer.
NewHeaderDone ==
    /\ phase = "header" /\ TopReturned
    /\ structs' = Append(structs,
                         Struct_new(dictionary.header.name, Last(vecs), None,
                                    nstructs + 1))
    /\ nstructs' = nstructs + 1
    /\ header_members' = Some(Last(vecs))
    /\ phase' = "trailer"
    /\ stack' = <<Frame(dictionary.trailer.members, "top", None)>>
    /\ vecs' = << <<>> >>
    /\ UNCHANGED <<begin_string, groups, trailer_members, todo, cur_msg,
                   Outputs, Inputs>>

\* Lines 205..209: the trailer Struct; the loop over the messages begins.
NewTrailerDone ==
    /\ phase = "trailer" /\ TopReturned
    /\ structs' = Append(structs,
                         Struct_new(dictionary.trailer.name, Last(vecs), None,
                                    nstructs + 1))
    /\ nstructs' = nstructs + 1
    /\ trailer_members' = Some(Last(vecs))
    /\ phase' = "message"
    /\ stack' = <<>>
    /\ vecs' = <<>>
    /\ todo' = DOMAIN dictionary.messages
    /\ UNCHANGED <<begin_string, groups, header_members, cur_msg, Outputs, Inputs>>

\* Lines 209..215: the loop takes the next message, in the order of
\* dictionary.messages().values(), and calls process_members on it.
NewMessageStart ==
    /\ phase = "message" /\ Len(stack) = 0
    /\ \E name \in todo :
        /\ todo' = todo \ {name}
        /\ cur_msg' = Some(dictionary.messages[name])
        /\ stack' = <<Frame(dictionary.messages[name].members, "top", None)>>
        /\ vecs' = << <<>> >>
    /\ UNCHANGED <<phase, begin_string, structs, groups, nstructs,
                   header_members, trailer_members, Outputs, Inputs>>

\* Lines 217..226: the message Struct.
NewMessageDone ==
    /\ phase = "message" /\ TopReturned
    /\ structs' = Append(structs,
                         Struct_new(cur_msg[1].name, Last(vecs),
                                    Some(MessageProperties(cur_msg[1],
                                                           header_members[1],
                                                           trailer_members[1])),
                                    nstructs + 1))
    /\ nstructs' = nstructs + 1
    /\ cur_msg' = None
    /\ stack' = <<>>
    /\ vecs' = <<>>
    /\ UNCHANGED <<phase, begin_string, groups, header_members, trailer_members,
                   todo, Outputs, Inputs>>

\* structs.extend(groups.into_values())
StructsExtend(ss, vals) == ss \o vals

\* Lines 229..262: the group Structs join structs and the Generator is built.
NewFinish ==
    /\ phase = "message" /\ Len(stack) = 0 /\ todo = {}
    /\ \E vals \in IntoValues(groups) : structs' = StructsExtend(structs, vals)
    /\ reject_reason_overrides' = Some(dictionary.reject_reason_overrides)
    /\ phase' = "done"
    /\ UNCHANGED <<begin_string, groups, nstructs, header_members,
                   trailer_members, todo, cur_msg, PMVars, reject_reason_fn,
                   deser_result, Inputs>>

GeneratorNew ==
    \/ NewStart
    \/ NewHeaderDone
    \/ NewTrailerDone
    \/ NewMessageStart
    \/ NewMessageDone
    \/ NewFinish

----------------------------------------------------------------------------
\* Generator::generate_fields: the reject reason mapping.

\* ParseRejectReason::iter(), and as_ref() of each variant.
\* The enum is declared in easyfix_dictionary; three of its variants stand
\* for all (InvalidMsgtype is the one gen.rs names, line 491).
ParseRejectReasonName ==
    <<"InvalidTagNumber", "ValueIsIncorrect", "InvalidMsgtype">>

ParseRejectReason == DOMAIN ParseRejectReasonName

AsRef(reject_reason) == ParseRejectReasonName[reject_reason]

\* RejectReasonMap with the overrides inserted only where no entry exists.
RejectReasonMap_DefaultsWin(overrides) ==
    LET defaults == [r \in ParseRejectReason |-> AsRef(r)]
    IN  defaults @@ overrides

\* Lines 271..276: the map of every variant to its own name, then
\* insert(key, value) of every override.
RejectReasonMap(overrides) ==
    LET defaults == [r \in ParseRejectReason |-> AsRef(r)]
    IN  overrides @@ defaults

\* Lines 278..285: one match arm per entry of the map.
RejectReasonVector(map) ==
    { [parse |-> AsRef(key), session |-> map[key]] : key \in DOMAIN map }

GenerateFields ==
    /\ phase = "done"
    /\ reject_reason_fn' =
           Some(RejectReasonVector(RejectReasonMap(reject_reason_overrides[1])))
    /\ UNCHANGED <<phase, groups, nstructs, NewLocals, PMVars,
                   reject_reason_overrides, deser_result, Inputs>>

----------------------------------------------------------------------------
\* FixtMessage::deserialize, as generated by Generator::generate_messages.

\* The tag number the generated code expects third.
MsgTypeTag == 35

\* MsgType::try_from(msg_type_fixstr) succeeds
MsgTypeKnown(dict, value) ==
    \E name \in DOMAIN dict.messages : dict.messages[name].msg_type = value

\* Result<Box<FixtMessage>, DeserializeError>, with the calls made on the
\* deserializer, in order.
DeserResult(outcome, what, calls) ==
    [outcome |-> outcome, what |-> what, calls |-> calls]

\* FixtMessage_deserialize with the third tag read before the begin string
\* is compared.
FixtMessage_deserialize_TagFirst(BEGIN_STRING, dict, raw) ==
    IF ~raw.tag_num.ok
    THEN DeserResult("GarbledMessage", "failed to parse MsgType<35>",
                     <<"begin_string", "body_length", "deserialize_tag_num">>)
    ELSE IF raw.tag_num.tag # Some(MsgTypeTag)
    THEN DeserResult("GarbledMessage", "MsgType<35> not third tag",
                     <<"begin_string", "body_length", "deserialize_tag_num">>)
    ELSE IF raw.begin_string # BEGIN_STRING
    THEN DeserResult("GarbledMessage", "begin string mismatch",
                     <<"begin_string", "body_length", "deserialize_tag_num">>)
    ELSE IF ~raw.msg_type.ok
    THEN DeserResult("Propagated", "deserialize_msg_type",
                     <<"begin_string", "body_length", "deserialize_tag_num",
                       "deserialize_msg_type">>)
    ELSE IF ~MsgTypeKnown(dict, raw.msg_type.value)
    THEN DeserResult("Reject", "InvalidMsgtype",
                     <<"begin_string", "body_length", "deserialize_tag_num",
                       "deserialize_msg_type", "range_to_fixstr", "reject">>)
    ELSE DeserResult("Message::deserialize", raw.msg_type.value,
                     <<"begin_string", "body_length", "deserialize_tag_num",
                       "deserialize_msg_type", "range_to_fixstr">>)

\* Lines 475..499. raw.tag_num is what deserialize_tag_num() returns
\* (ok: Ok or Err, tag: the Option), raw.msg_type what deserialize_msg_type()
\* returns (ok, and the value range_to_fixstr() gives).
FixtMessage_deserialize(BEGIN_STRING, dict, raw) ==
    IF raw.begin_string # BEGIN_STRING
    THEN DeserResult("GarbledMessage", "begin string mismatch", <<"begin_string">>)
    ELSE IF ~raw.tag_num.ok
    THEN DeserResult("GarbledMessage", "failed to parse MsgType<35>",
                     <<"begin_string", "body_length", "deserialize_tag_num">>)
    ELSE IF raw.tag_num.tag = Some(MsgTypeTag)
    THEN IF ~raw.msg_type.ok
         THEN DeserResult("Propagated", "deserialize_msg_type",
                          <<"begin_string", "body_length", "deserialize_tag_num",
                            "deserialize_msg_type">>)
         ELSE IF ~MsgTypeKnown(dict, raw.msg_type.value)
         THEN DeserResult("Reject", "InvalidMsgtype",
                          <<"begin_string", "body_length", "deserialize_tag_num",
                            "deserialize_msg_type", "range_to_fixstr", "reject">>)
         ELSE DeserResult("Message::deserialize", raw.msg_type.value,
                          <<"begin_string", "body_length", "deserialize_tag_num",
                            "deserialize_msg_type", "range_to_fixstr">>)
    ELSE DeserResult("GarbledMessage", "MsgType<35> not third tag",
                     <<"begin_string", "body_length", "deserialize_tag_num">>)

Deserialize ==
    /\ phase = "done"
    /\ deser_result' =
           Some(FixtMessage_deserialize(begin_string[1], dictionary, raw_message))
    /\ UNCHANGED <<phase, groups, nstructs, NewLocals, PMVars,
                   reject_reason_overrides, reject_reason_fn, Inputs>>

----------------------------------------------------------------------------
\* The dictionaries and inbound messages the model is run on.

Message(name, msg_type, msg_cat, members) ==
    [name |-> name, msg_type |-> msg_type, msg_cat |-> msg_cat,
     members |-> members]

DictionaryOf(fixt, fix, components, logon, order, overrides) ==
    [fixt_version |-> fixt,
     fix_version |-> fix,
     header |-> [name |-> "Header",
                 members |-> <<FieldMember("PossDupFlag", FALSE),
                               ComponentMember("SubParties", TRUE)>>],
     trailer |-> [name |-> "Trailer",
                  members |-> <<FieldMember("Text", FALSE)>>],
     messages |-> ("Logon" :> Message("Logon", "A", "Admin", logon)) @@
                  ("NewOrderSingle" :> Message("NewOrderSingle", "D", "App", order)),
     components |-> components,
     reject_reason_overrides |-> overrides]

Dictionary(fixt, fix, block, logon, order, overrides) ==
    DictionaryOf(fixt, fix, Components(block), logon, order, overrides)

\* members with the component reference at position i replaced by the
\* component's own members
SpliceAt(members, i, component) ==
    SubSeq(members, 1, i - 1) \o component.members
        \o SubSeq(members, i + 1, Len(members))

\* the positions of members that reference a component without cardinality
PlainRefs(members, components) ==
    { i \in 1..Len(members) :
        /\ members[i].kind = "Component"
        /\ components[members[i].name].number_of_elements = None }

DefaultOrder ==
    <<ComponentMember("Parties", FALSE), FieldMember("RawDataLength", FALSE),
      FieldMember("RawData", TRUE)>>

DefaultBlock == <<FieldMember("Text", TRUE)>>

DefaultVersion == Version(1, 1, 0)

Versions ==
    { Version(4, 4, sp) : sp \in 0..MaxServicePack }

\* what deserialize_tag_num() may return when the third tag is not MsgType
OtherTagNumResults ==
    { [ok |-> FALSE, tag |-> None], [ok |-> TRUE, tag |-> None],
      [ok |-> TRUE, tag |-> Some(49)] }

\* what deserialize_msg_type() may return
MsgTypeResults ==
    { [ok |-> FALSE, value |-> ""], [ok |-> TRUE, value |-> "A"],
      [ok |-> TRUE, value |-> "D"], [ok |-> TRUE, value |-> "ZZ"] }

\* the third tag and, when it is MsgType, its value
ThirdFields ==
    { <<t, [ok |-> TRUE, value |-> "A"]>> : t \in OtherTagNumResults } \cup
    { <<[ok |-> TRUE, tag |-> Some(MsgTypeTag)], m>> : m \in MsgTypeResults }

RawMessage(bs, tag_num, msg_type) ==
    [begin_string |-> bs, tag_num |-> tag_num, msg_type |-> msg_type]

DefaultRaw ==
    RawMessage(BeginString("FIXT", DefaultVersion),
               [ok |-> TRUE, tag |-> Some(MsgTypeTag)],
               [ok |-> TRUE, value |-> "A"])

NoOverrides == <<>>

OverrideMaps ==
    UNION { [keys -> {"Other", "ValueIsIncorrect", "NotASessionReason"}] :
              keys \in SUBSET ParseRejectReason }

\* Member lists vary: the Logon list is any list, the NewOrderSingle list a
\* fixed one or the Logon list with one plain component spliced in.
InitSchema ==
    /\ \E block \in BlockChoices, logon \in MemberLists :
         \E order \in {DefaultOrder} \cup
                      { SpliceAt(logon, i, Components(block)[logon[i].name]) :
                          i \in PlainRefs(logon, Components(block)) } :
            dictionary = Dictionary(Some(DefaultVersion), None, block, logon,
                                    order, NoOverrides)
    /\ raw_message = DefaultRaw

\* The reject reason overrides vary.
InitFields ==
    /\ \E overrides \in OverrideMaps :
         dictionary = Dictionary(Some(DefaultVersion), None, DefaultBlock,
                                 <<>>, <<>>, overrides)
    /\ raw_message = DefaultRaw

\* The versions and the inbound message vary.
InitDeser ==
    /\ \E fixt \in {None} \cup { Some(v) : v \in Versions },
          fix \in {None, Some(Version(4, 4, 0))} :
         dictionary = Dictionary(fixt, fix, DefaultBlock, <<>>, <<>>,
                                 NoOverrides)
    /\ \E protocol \in {"FIX", "FIXT"}, v \in Versions, third \in ThirdFields :
         raw_message = RawMessage(BeginString(protocol, v), third[1], third[2])

\* The body of the group Parties is any list, "Block" is any of its bodies
\* or a reference to itself: the component graph may be cyclic.
InitGroups ==
    /\ \E block \in BlockChoices \cup {CyclicBlock}, parties \in MemberLists :
         dictionary = DictionaryOf(Some(DefaultVersion), None,
                                   ComponentsOf(block, parties),
                                   <<ComponentMember("Parties", TRUE)>>, <<>>,
                                   NoOverrides)
    /\ raw_message = DefaultRaw

Init ==
    /\ \/ InitSchema
       \/ InitFields
       \/ InitDeser
       \/ InitGroups
    /\ phase = "start"
    /\ begin_string = None
    /\ structs = <<>>
    /\ groups = <<>>
    /\ header_members = None
    /\ trailer_members = None
    /\ todo = {}
    /\ cur_msg = None
    /\ stack = <<>>
    /\ vecs = <<>>
    /\ nstructs = 0
    /\ reject_reason_overrides = None
    /\ reject_reason_fn = None
    /\ deser_result = None

Next ==
    \/ GeneratorNew
    \/ ProcessMembers
    \/ GenerateFields
    \/ Deserialize

Spec == Init /\ [][Next]_vars

----------------------------------------------------------------------------
\* Vocabulary of the properties.

\* member is a field member whose field has one of the types
IsFieldOfType(member, types) ==
    /\ member.kind = "Field"
    /\ member.name \in DOMAIN Fields
    /\ Fields[member.name].type \in types

DataTypes == {"Data", "XmlData"}

\* the step leaves every vector but the innermost alone and only appends to
\* the innermost
ExtendsCur ==
    /\ Len(vecs') = Len(vecs)
    /\ Front(vecs') = Front(vecs)
    /\ Len(Last(vecs')) >= Len(Last(vecs))
    /\ SubSeq(Last(vecs'), 1, Len(Last(vecs))) = Last(vecs)

\* the descriptors such a step appends
Emitted == SubSeq(Last(vecs'), Len(Last(vecs)) + 1, Len(Last(vecs')))

\* the iterator of the innermost frame moves n positions, nothing else of
\* the stack changes
IteratorMoves(n) == stack' = [stack EXCEPT ![Len(stack)].pos = @ + n]

\* the iterator is about to yield a Length field that a Data or XmlData
\* field follows
LengthBeforeData ==
    /\ Running /\ HasNext(Cur)
    /\ IsFieldOfType(NextMember(Cur), {"Length"})
    /\ Peek(Cur) # None
    /\ IsFieldOfType(Peek(Cur)[1], DataTypes)

\* the iterator has yielded a Length field and is about to yield the Data or
\* XmlData field that follows it
DataAfterLength ==
    /\ Running /\ HasNext(Cur) /\ Cur.pos >= 1
    /\ IsFieldOfType(Cur.members[Cur.pos], {"Length"})
    /\ IsFieldOfType(NextMember(Cur), DataTypes)

\* desc is the descriptor of kind variant of the field member
DescribesField(desc, variant, member) ==
    /\ desc.variant = variant
    /\ desc.member.name = member.name
    /\ desc.member.tag = Fields[member.name].number
    /\ desc.member.required = member.required
    /\ desc.member.type = Fields[member.name].type

\* desc pairs the Length member len with the Data member data
PairsLengthData(desc, len, data) ==
    /\ desc.variant = "CustomLength"
    /\ desc.len.name = len.name
    /\ desc.len.tag = Fields[len.name].number
    /\ desc.len.required = len.required
    /\ desc.value.name = data.name
    /\ desc.value.tag = Fields[data.name].number
    /\ desc.value.required = data.required
    /\ desc.value.type = Fields[data.name].type

----------------------------------------------------------------------------
\* C1, as stated: a Length field followed by a Data or XmlData field yields
\* exactly one LengthData descriptor and the iterator advances two positions,
\* so that no descriptor is ever emitted for the Data member itself.
C1_PairConsumesData ==
    [][LengthBeforeData =>
          /\ ExtendsCur
          /\ Len(Emitted) = 1
          /\ PairsLengthData(Emitted[1], NextMember(Cur), Peek(Cur)[1])
          /\ IteratorMoves(2)]_vars

\* C1, amended: a Length field followed by a Data or XmlData field yields
\* exactly one LengthData descriptor pairing the two and the iterator
\* advances one position; the Data member is then yielded and classified on
\* its own, which appends exactly one Simple descriptor for it (Enumeration
\* if the field has a value set).
C1_PairThenData ==
    [][/\ LengthBeforeData =>
            /\ ExtendsCur
            /\ Len(Emitted) = 1
            /\ PairsLengthData(Emitted[1], NextMember(Cur), Peek(Cur)[1])
            /\ IteratorMoves(1)
       /\ DataAfterLength =>
            /\ ExtendsCur
            /\ Len(Emitted) = 1
            /\ DescribesField(Emitted[1],
                              IF Fields[NextMember(Cur).name].values
                              THEN "Enumeration" ELSE "Simple",
                              NextMember(Cur))
            /\ IteratorMoves(1)]_vars

\* C1 witness: the iterator has passed a Length field and the Data field
\* after it, and the vector ends with the pair followed by the descriptor of
\* the Data field.
C1_Witness ==
    /\ Running /\ Cur.pos >= 2
    /\ IsFieldOfType(Cur.members[Cur.pos - 1], {"Length"})
    /\ IsFieldOfType(Cur.members[Cur.pos], DataTypes)
    /\ Len(Last(vecs)) >= 2
    /\ PairsLengthData(Last(vecs)[Len(Last(vecs)) - 1],
                       Cur.members[Cur.pos - 1], Cur.members[Cur.pos])
    /\ DescribesField(Last(Last(vecs)), "Simple", Cur.members[Cur.pos])

----------------------------------------------------------------------------
\* the iterator is about to yield a Length field that is followed by a member
\* other than a Data or XmlData field
LengthBeforeOther ==
    /\ Running /\ HasNext(Cur)
    /\ IsFieldOfType(NextMember(Cur), {"Length"})
    /\ Peek(Cur) # None
    /\ ~IsFieldOfType(Peek(Cur)[1], DataTypes)

\* C5, as stated: a Length field followed by a member that is not a Data or
\* XmlData field (a field of another type, or a component reference) yields
\* exactly one Simple descriptor for the Length field, and the iterator
\* advances one position.
C5_LengthAloneIsSimple ==
    [][LengthBeforeOther =>
          /\ ExtendsCur
          /\ Len(Emitted) = 1
          /\ DescribesField(Emitted[1], "Simple", NextMember(Cur))
          /\ IteratorMoves(1)
          /\ phase' = phase]_vars

\* the iterator is about to yield a Length field that is the last member of
\* the list
LengthLast ==
    /\ Running /\ HasNext(Cur)
    /\ IsFieldOfType(NextMember(Cur), {"Length"})
    /\ Peek(Cur) = None

\* C6: a Length field that is the last member of the list being resolved (a
\* top-level list or a component's own list) yields no descriptor and no
\* error, and leaves the descriptors of the members before it as they are.
C6_TrailingLengthDropped ==
    [][LengthLast =>
          /\ vecs' = vecs
          /\ IteratorMoves(1)
          /\ phase' = phase
          /\ groups' = groups
          /\ structs' = structs]_vars

\* C6 witness: the call on a component's own list has yielded its last
\* member, a Length field, after another field, and the vector ends with the
\* descriptor of that other field.
C6_Witness ==
    /\ Running /\ Cur.kind = "inline" /\ ~HasNext(Cur) /\ Cur.pos >= 2
    /\ IsFieldOfType(Cur.members[Cur.pos], {"Length"})
    /\ Cur.members[Cur.pos - 1].kind = "Field"
    /\ Len(Last(vecs)) >= 1
    /\ DescribesField(Last(Last(vecs)), "Simple", Cur.members[Cur.pos - 1])

\* the iterator is about to yield a field whose type is not Length
FieldNotLength ==
    /\ Running /\ HasNext(Cur)
    /\ NextMember(Cur).kind = "Field"
    /\ ~IsFieldOfType(NextMember(Cur), {"Length"})

\* C8: a field member whose type is not Length yields exactly one descriptor,
\* with the member's required flag: Simple when the type is Boolean (value
\* set or not) or when the field has no value set, Enumeration otherwise.
C8_FieldClassified ==
    [][FieldNotLength =>
          /\ ExtendsCur
          /\ Len(Emitted) = 1
          /\ DescribesField(Emitted[1],
                            IF \/ Fields[NextMember(Cur).name].type = "Boolean"
                               \/ ~Fields[NextMember(Cur).name].values
                            THEN "Simple" ELSE "Enumeration",
                            NextMember(Cur))
          /\ IteratorMoves(1)]_vars

\* C8 witness: the iterator has yielded a Boolean field that has a value
\* set, and the vector ends with its Simple descriptor.
C8_Witness ==
    /\ Running /\ Cur.pos >= 1
    /\ IsFieldOfType(Cur.members[Cur.pos], {"Boolean"})
    /\ Fields[Cur.members[Cur.pos].name].values
    /\ Len(Last(vecs)) >= 1
    /\ DescribesField(Last(Last(vecs)), "Simple", Cur.members[Cur.pos])

----------------------------------------------------------------------------
\* the call made for a member that references a component with a
\* number_of_elements is about to return
GroupReturning == Running /\ ~HasNext(Cur) /\ Cur.kind = "group"

\* the number_of_elements member of the component a member references
CountOf(member) == dictionary.components[member.name].number_of_elements[1]

\* the step pops the innermost vector and appends descs to the one below
PopsAndPushes(descs) ==
    /\ Len(vecs) >= 2
    /\ Len(vecs') = Len(vecs) - 1
    /\ SubSeq(vecs', 1, Len(vecs) - 2) = SubSeq(vecs, 1, Len(vecs) - 2)
    /\ Last(vecs') = vecs[Len(vecs) - 1] \o descs

\* the descriptors a step that pops the innermost vector appends below
EmittedBelow ==
    SubSeq(Last(vecs'), Len(vecs[Len(vecs) - 1]) + 1, Len(Last(vecs')))

\* desc is the Group descriptor of the member: the count field by its name
\* and tag, the group by the component's name and the count field's tag
IsGroupDesc(desc, member) ==
    /\ desc.variant = "Group"
    /\ desc.num_in_group.name = CountOf(member).name
    /\ desc.num_in_group.tag = Fields[CountOf(member).name].number
    /\ desc.group.name = member.name
    /\ desc.group.tag = Fields[CountOf(member).name].number

\* desc is a Simple descriptor carrying the count field's tag
IsCountSimple(desc, member) ==
    /\ desc.variant = "Simple"
    /\ desc.member.tag = Fields[CountOf(member).name].number

\* C3, as stated: a member referencing a component with a cardinality field
\* appends to the current list exactly a Simple descriptor for the count
\* field immediately followed by a Group descriptor, in that order.
C3_SimpleThenGroup ==
    [][GroupReturning =>
          /\ PopsAndPushes(EmittedBelow)
          /\ Len(EmittedBelow) = 2
          /\ IsCountSimple(EmittedBelow[1], Cur.via[1])
          /\ IsGroupDesc(EmittedBelow[2], Cur.via[1])]_vars

\* C3, amended: a member referencing a component with a cardinality field
\* appends to the current list exactly a Group descriptor (the count field
\* by its name and tag, the group by the component's name and the count
\* field's tag) immediately followed by a Simple descriptor that carries the
\* component's name and the count field's tag, in that order.
C3_GroupThenSimple ==
    [][GroupReturning =>
          /\ PopsAndPushes(EmittedBelow)
          /\ Len(EmittedBelow) = 2
          /\ IsGroupDesc(EmittedBelow[1], Cur.via[1])
          /\ IsCountSimple(EmittedBelow[2], Cur.via[1])
          /\ EmittedBelow[2].member = EmittedBelow[1].group]_vars

\* C3 witness: the header Struct, whose list references the SubParties
\* group after one field, holds the field's descriptor, then the Group
\* descriptor, then the Simple descriptor.
C3_Witness ==
    /\ Len(structs) >= 1
    /\ Len(structs[1].members) = 3
    /\ structs[1].members[2].variant = "Group"
    /\ structs[1].members[2].group.name = "SubParties"
    /\ structs[1].members[3].variant = "Simple"
    /\ structs[1].members[3].member.name = "SubParties"

\* C9: the count field descriptor of a member referencing a component with a
\* cardinality field has the member's required flag, whatever the required
\* flag of the component's number_of_elements; so has the Simple descriptor
\* that follows.
C9_CountRequiredFromMember ==
    [][GroupReturning =>
          /\ PopsAndPushes(EmittedBelow)
          /\ Len(EmittedBelow) = 2
          /\ EmittedBelow[1].variant = "Group"
          /\ EmittedBelow[1].num_in_group.name = CountOf(Cur.via[1]).name
          /\ EmittedBelow[1].num_in_group.required = Cur.via[1].required
          /\ EmittedBelow[2].member.required = Cur.via[1].required]_vars

\* C9 witness: a list holds a Group descriptor whose count field is required
\* although the component's number_of_elements is not.
C9_Witness ==
    \E i \in 1..Len(vecs) : \E j \in 1..Len(vecs[i]) :
        /\ vecs[i][j].variant = "Group"
        /\ vecs[i][j].num_in_group.required
        /\ ~CountOf([name |-> vecs[i][j].group.name]).required

----------------------------------------------------------------------------
\* the names of the components a member list references
Refs(members) ==
    { members[i].name : i \in { j \in 1..Len(members) : members[j].kind = "Component" } }

RECURSIVE ComponentClosure(_, _)
\* names, with every component referenced from the component's lists, on
ComponentClosure(dict, names) ==
    LET more == names \cup
                UNION { Refs(dict.components[n].members) : n \in names }
    IN  IF more = names THEN names ELSE ComponentClosure(dict, more)

\* the components with a number_of_elements reached from the header, the
\* trailer and the named messages, directly or through other components
GroupsReached(dict, msgs) ==
    { n \in ComponentClosure(dict,
                             Refs(dict.header.members) \cup
                             Refs(dict.trailer.members) \cup
                             UNION { Refs(dict.messages[m].members) : m \in msgs }) :
        dict.components[n].number_of_elements # None }

\* the messages whose Struct has been pushed
MessagesDone ==
    { structs[i].name : i \in { j \in 1..Len(structs) : structs[j].msg_props # None } }

\* C4: within one Generator::new, after the header, the trailer and any
\* number of messages have been resolved, the group catalog holds one Struct
\* for each component with a cardinality field reached so far and nothing
\* else; a Struct of the catalog is never replaced by a later reference; and
\* at the end structs holds the header, the trailer and the message Structs,
\* then each Struct of the catalog exactly once.
C4_GroupsOncePerComponent ==
    /\ [](/\ (phase \in {"message", "done"} /\ Len(stack) = 0) =>
                /\ DOMAIN groups = GroupsReached(dictionary, MessagesDone)
                /\ \A n \in DOMAIN groups : groups[n].name = n
          /\ phase = "done" =>
                LET nmsg == Cardinality(DOMAIN dictionary.messages)
                    tail == SubSeq(structs, 3 + nmsg, Len(structs))
                IN  /\ Len(structs) = 2 + nmsg + Cardinality(DOMAIN groups)
                    /\ structs[1].name = dictionary.header.name
                    /\ structs[2].name = dictionary.trailer.name
                    /\ { structs[i].name : i \in 3..(2 + nmsg) }
                           = DOMAIN dictionary.messages
                    /\ \A i \in 1..(2 + nmsg) : structs[i].name \notin DOMAIN groups
                    /\ \A n \in DOMAIN groups :
                          Cardinality({ i \in 1..Len(tail) : tail[i] = groups[n] }) = 1)
    /\ [][\A n \in DOMAIN groups :
              n \in DOMAIN groups' /\ groups'[n] = groups[n]]_vars

\* C4 witness: the Generator is built from a dictionary in which both
\* messages reference the Parties group, and the header and the Parties
\* group both reference the SubParties group.
C4_Witness ==
    /\ phase = "done"
    /\ "Parties" \in Refs(dictionary.messages["Logon"].members)
    /\ "Parties" \in Refs(dictionary.messages["NewOrderSingle"].members)
    /\ DOMAIN groups = {"Parties", "SubParties"}
    /\ Len(structs) = 6

\* the Struct of the name in structs
StructOf(name) ==
    structs[CHOOSE i \in 1..Len(structs) : structs[i].name = name]

\* the NewOrderSingle list is the Logon list with a reference to a component
\* without cardinality field replaced by the component's members
OrderIsLogonInlined ==
    \E i \in PlainRefs(dictionary.messages["Logon"].members, dictionary.components) :
        dictionary.messages["NewOrderSingle"].members =
            SpliceAt(dictionary.messages["Logon"].members, i,
                     dictionary.components[dictionary.messages["Logon"].members[i].name])

\* C2, as stated: a list that references a component without cardinality
\* field and the list with the component's members spliced in at that
\* position resolve to the same descriptor sequence, and register the same
\* groups.
C2_InliningTransparent ==
    OrderIsLogonInlined =>
        /\ (phase = "message" /\ Len(stack) = 0 /\ Cardinality(MessagesDone) = 1) =>
              DOMAIN groups = GroupsReached(dictionary, DOMAIN dictionary.messages)
        /\ phase = "done" =>
              StructOf("Logon").members = StructOf("NewOrderSingle").members

----------------------------------------------------------------------------
\* C7: the generated reject reason mapping has exactly one arm for every
\* ParseRejectReason variant and no other arm; the arm of a variant without
\* override maps it to the session reason of its own name, the arm of a
\* variant with an override to the override value.
C7_RejectReasonMapTotal ==
    reject_reason_fn # None =>
        LET arms == reject_reason_fn[1]
            overrides == dictionary.reject_reason_overrides
        IN  /\ \A r \in ParseRejectReason :
                  { a \in arms : a.parse = ParseRejectReasonName[r] } =
                      { [parse |-> ParseRejectReasonName[r],
                         session |-> IF r \in DOMAIN overrides
                                     THEN overrides[r]
                                     ELSE ParseRejectReasonName[r]] }
            /\ \A a \in arms :
                  \E r \in ParseRejectReason : a.parse = ParseRejectReasonName[r]

\* C7 witness: the mapping is generated from overrides that change one
\* variant and leave another alone.
C7_Witness ==
    /\ reject_reason_fn # None
    /\ \E r, q \in ParseRejectReason :
          /\ r \in DOMAIN dictionary.reject_reason_overrides
          /\ dictionary.reject_reason_overrides[r] # ParseRejectReasonName[r]
          /\ q \notin DOMAIN dictionary.reject_reason_overrides
          /\ [parse |-> ParseRejectReasonName[r],
              session |-> dictionary.reject_reason_overrides[r]] \in reject_reason_fn[1]
          /\ [parse |-> ParseRejectReasonName[q],
              session |-> ParseRejectReasonName[q]] \in reject_reason_fn[1]

----------------------------------------------------------------------------
\* the third tag of the inbound message is read as MsgType(35)
ThirdTagIsMsgType ==
    raw_message.tag_num.ok /\ raw_message.tag_num.tag = <<35>>

\* C10: FixtMessage::deserialize compares the begin string first, and a
\* mismatch is GarbledMessage with no other field read; otherwise a third
\* tag that is not MsgType(35) is GarbledMessage; and a MsgType(35) whose
\* value is read but is no known message type is a reject with reason
\* InvalidMsgtype, which this function reports in no other case and never as
\* GarbledMessage.
C10_DeserializeCheckOrder ==
    deser_result # None =>
        LET res == deser_result[1]
            invalid == res.outcome = "Reject" /\ res.what = "InvalidMsgtype"
        IN  /\ raw_message.begin_string # begin_string[1] =>
                  /\ res.outcome = "GarbledMessage"
                  /\ res.calls = <<"begin_string">>
            /\ (raw_message.begin_string = begin_string[1] /\ ~ThirdTagIsMsgType) =>
                  /\ res.outcome = "GarbledMessage"
                  /\ res.calls = <<"begin_string", "body_length", "deserialize_tag_num">>
            /\ invalid <=>
                  /\ raw_message.begin_string = begin_string[1]
                  /\ ThirdTagIsMsgType
                  /\ raw_message.msg_type.ok
                  /\ raw_message.msg_type.value \notin
                        { dictionary.messages[m].msg_type : m \in DOMAIN dictionary.messages }

\* C10 witness: a message with the right begin string and MsgType(35) third,
\* of an unknown type, has been rejected with InvalidMsgtype.
C10_Witness ==
    /\ deser_result # None
    /\ raw_message.begin_string = begin_string[1]
    /\ ThirdTagIsMsgType
    /\ raw_message.msg_type.value = "ZZ"
    /\ deser_result[1].outcome = "Reject"
    /\ deser_result[1].what = "InvalidMsgtype"

----------------------------------------------------------------------------
\* Termination of member resolution.

\* the components whose call of process_members has not returned, outermost
\* first
ActiveComponents ==
    LET called == SelectSeq(stack, LAMBDA f : f.via # None)
    IN  [i \in 1..Len(called) |-> called[i].via[1].name]

\* a component is entered while an earlier call for it is still running
Reentered ==
    \E i, j \in 1..Len(ActiveComponents) :
        i < j /\ ActiveComponents[i] = ActiveComponents[j]

\* C11: member resolution terminates for every finite dictionary, a
\* dictionary whose components or groups reference each other or themselves
\* included: no run of process_members recurses until the call stack is
\* exhausted.
C11_ResolutionTerminates == phase # "overflow"

----------------------------------------------------------------------------
\* The element tags of a Group descriptor.

RECURSIVE Flattened(_, _)
\* members with every reference to a component without cardinality replaced,
\* in place, by that component's flattened members
Flattened(dict, members) ==
    IF members = <<>>
    THEN <<>>
    ELSE LET m == members[1]
             here == IF /\ m.kind = "Component"
                        /\ dict.components[m.name].number_of_elements = None
                     THEN Flattened(dict, dict.components[m.name].members)
                     ELSE <<m>>
         IN  here \o Flattened(dict, Tail(members))

\* the tag numbers of the scalar fields of a flattened member list, in order
ScalarTags(members) ==
    LET scalars == SelectSeq(members, LAMBDA m : m.kind = "Field")
    IN  [i \in 1..Len(scalars) |-> Fields[scalars[i].name].number]

\* the tag numbers of the count fields of the groups a flattened member list
\* references
NestedCountTags(members) ==
    { Fields[CountOf(members[i]).name].number :
        i \in { j \in 1..Len(members) : members[j].kind = "Component" } }

Range(seq) == { seq[i] : i \in 1..Len(seq) }

RECURSIVE SimpleTagsFrom(_, _, _)
\* the tags of the members, from the i-th on, that a member list resolves to
\* Simple descriptors: a field without a value set, a Boolean field, a Length
\* field followed by a field that is neither Data nor XmlData, a Data or
\* XmlData field, the count field of a referenced group; the members of a
\* referenced component without cardinality are resolved as a list of their
\* own
SimpleTagsFrom(dict, members, i) ==
    IF i > Len(members)
    THEN <<>>
    ELSE LET m == members[i]
             plain == Fields[m.name].type \notin {"Length", "Boolean"}
                          /\ ~Fields[m.name].values
             alone == /\ Fields[m.name].type = "Length"
                      /\ i < Len(members)
                      /\ members[i + 1].kind = "Field"
                      /\ Fields[members[i + 1].name].type \notin {"Data", "XmlData"}
             here == IF m.kind = "Component"
                     THEN IF dict.components[m.name].number_of_elements = None
                          THEN SimpleTagsFrom(dict, dict.components[m.name].members, 1)
                          ELSE <<Fields[CountOf(m).name].number>>
                     ELSE IF plain \/ alone \/ Fields[m.name].type = "Boolean"
                          THEN <<Fields[m.name].number>>
                          ELSE <<>>
         IN  here \o SimpleTagsFrom(dict, members, i + 1)

\* C12, as stated: the element tags of every Group descriptor are exactly
\* the tag numbers of the scalar fields directly inside the group's element
\* schema, one entry per scalar sub-field, and hold no tag contributed by a
\* nested group.
C12_TagsAreDirectScalars ==
    [][GroupReturning =>
          LET schema == Flattened(dictionary, Cur.members)
              tags == EmittedBelow[1].tags
          IN  /\ EmittedBelow[1].variant = "Group"
              /\ Range(tags) = Range(ScalarTags(schema))
              /\ Len(tags) = Len(ScalarTags(schema))
              /\ Range(tags) \cap NestedCountTags(schema) = {}]_vars

\* C12, amended: the element tags of every Group descriptor are, in order,
\* the tags of the Simple descriptors of the group's element list and nothing
\* else: one entry per sub-field described by a Simple descriptor (the Data
\* field of a length/data pair included) and one entry, the count field's
\* tag, per directly nested group; a sub-field described by an Enumeration
\* descriptor, the Length field of a pair and a trailing Length field have
\* no entry.
C12_TagsAreSimpleDescs ==
    [][GroupReturning =>
          LET simple == { j \in 1..Len(Last(vecs)) : Last(vecs)[j].variant = "Simple" }
              tags == EmittedBelow[1].tags
          IN  /\ EmittedBelow[1].variant = "Group"
              /\ tags = SimpleTagsFrom(dictionary, Cur.members, 1)
              /\ Len(tags) = Cardinality(simple)
              /\ \A j \in simple :
                    tags[Cardinality({ k \in simple : k <= j })] = Last(vecs)[j].member.tag]_vars

\* C12 witness: a list holds the Group descriptor of Parties, whose element
\* list is a field followed by the nested group SubParties, with the tag of
\* the field and the tag of the nested group's count field.
C12_Witness ==
    \E i \in 1..Len(vecs) : \E j \in 1..Len(vecs[i]) :
        /\ vecs[i][j].variant = "Group"
        /\ vecs[i][j].group.name = "Parties"
        /\ dictionary.components["Parties"].members = DefaultParties
        /\ vecs[i][j].tags = <<Fields["Text"].number, Fields["NoPartySubIDs"].number>>

====
